---- MODULE Spec2Model ----
(***************************************************************************)
(* config::ConfigManager (src/example/config/config.cc): a std::map from   *)
(* string keys to string values, imported from and exported to JSON text   *)
(* through nlohmann::json.                                                 *)
(*                                                                         *)
(* A std::string is a sequence of one-character strings; "xFF" stands for  *)
(* the byte 0xFF, which no well-formed UTF-8 text contains.  A JSON        *)
(* document is the sequence of its top-level members as they are written   *)
(* in the text (an integer is the text of its literal), with a flag        *)
(* telling whether the text is complete.                                   *)
(*                                                                         *)
(* core::StateManager (src/example/core/state.cc): a std::map from string  *)
(* keys to string values, written to and read from files of key=value      *)
(* lines through util::WriteFile and util::ReadFile                        *)
(* (src/example/util/file_io.cc).                                          *)
(***************************************************************************)
EXTENDS Integers, Sequences, FiniteSets, TLC

VARIABLES config_, last, preKeys, written, state_, files, saved

vars == <<config_, last, preKeys, written, state_, files, saved>>

----------------------------------------------------------------------------
(* Characters and integers *)

\* The characters in use, in increasing byte order.
Alphabet == <<"\n", " ", "+", "-", ".", "0", "1", "2", "3", "4", "5", "6",
              "7", "8", "9", "=", "a", "b", "e", "f", "l", "r", "s", "t", "u",
              "xFF">>

CharCodes ==
  [c \in {Alphabet[i] : i \in 1..Len(Alphabet)} |->
     CHOOSE i \in 1..Len(Alphabet) : Alphabet[i] = c]

CharCode(c) == CharCodes[c]

DigitChars == <<"0", "1", "2", "3", "4", "5", "6", "7", "8", "9">>

IsDigit(c) == c \in {"0", "1", "2", "3", "4", "5", "6", "7", "8", "9"}

DigitVals ==
  [c \in {DigitChars[i] : i \in 1..10} |-> (CHOOSE i \in 1..10 : DigitChars[i] = c) - 1]

DigitVal(c) == DigitVals[c]

IsSpace(c) == c = " "

INT_MAX == 2147483647

INT_MIN == -INT_MAX - 1

\* 2^16: a 32-bit word is kept as two 16-bit halves.
HalfWord == 65536

----------------------------------------------------------------------------
(* std::string comparison (the order of std::map<std::string, ...>) *)

RECURSIVE StrLess(_, _)
StrLess(s, t) ==
  IF t = <<>> THEN FALSE
  ELSE IF s = <<>> THEN TRUE
  ELSE IF Head(s) # Head(t) THEN CharCode(Head(s)) < CharCode(Head(t))
  ELSE StrLess(Tail(s), Tail(t))

----------------------------------------------------------------------------
(* std::to_string(int) *)

RECURSIVE DigitsOfNonPos(_)
\* The decimal digits of -n, for n <= 0 (INT_MIN has no positive counterpart).
DigitsOfNonPos(n) ==
  LET d == (10 - (n % 10)) % 10
      q == (n + d) \div 10
  IN  IF q = 0 THEN <<DigitChars[d + 1]>>
      ELSE Append(DigitsOfNonPos(q), DigitChars[d + 1])

to_string(n) ==
  IF n < 0 THEN <<"-">> \o DigitsOfNonPos(n) ELSE DigitsOfNonPos(0 - n)

----------------------------------------------------------------------------
(* std::stoi(str): strtol in base 10, then the range check of int *)

RECURSIVE SkipSpace(_)
SkipSpace(s) ==
  IF s # <<>> /\ IsSpace(Head(s)) THEN SkipSpace(Tail(s)) ELSE s

RECURSIVE LeadingDigits(_)
LeadingDigits(s) ==
  IF s # <<>> /\ IsDigit(Head(s)) THEN <<Head(s)>> \o LeadingDigits(Tail(s))
  ELSE <<>>

RECURSIVE NegAccumulate(_, _)
\* -(value of the digits ds) added to acc * 10^Len(ds), or "range" when that
\* is below INT_MIN.
NegAccumulate(acc, ds) ==
  IF ds = <<>> THEN [range |-> FALSE, val |-> acc]
  ELSE LET d == DigitVal(Head(ds))
       IN  IF acc < -214748364 \/ (acc = -214748364 /\ d > 8)
           THEN [range |-> TRUE, val |-> 0]
           ELSE NegAccumulate(acc * 10 - d, Tail(ds))

\* stoi as strtol without the range check of int: the value is clamped.
stoi_Clamps(str) ==
  LET s    == SkipSpace(str)
      neg  == s # <<>> /\ Head(s) = "-"
      sign == s # <<>> /\ Head(s) \in {"-", "+"}
      body == IF sign THEN Tail(s) ELSE s
      ds   == LeadingDigits(body)
      acc  == NegAccumulate(0, ds)
  IN  IF ds = <<>> THEN [ok |-> FALSE, val |-> 0]
      ELSE IF acc.range THEN [ok |-> TRUE, val |-> IF neg THEN INT_MIN ELSE INT_MAX]
      ELSE IF neg THEN [ok |-> TRUE, val |-> acc.val]
      ELSE IF acc.val = INT_MIN THEN [ok |-> TRUE, val |-> INT_MAX]
      ELSE [ok |-> TRUE, val |-> 0 - acc.val]

\* [ok |-> TRUE, val |-> n] when stoi returns n; [ok |-> FALSE, ...] when it
\* throws std::invalid_argument (no digits) or std::out_of_range.
stoi(str) ==
  LET s    == SkipSpace(str)
      neg  == s # <<>> /\ Head(s) = "-"
      sign == s # <<>> /\ Head(s) \in {"-", "+"}
      body == IF sign THEN Tail(s) ELSE s
      ds   == LeadingDigits(body)
      acc  == NegAccumulate(0, ds)
  IN  IF ds = <<>> THEN [ok |-> FALSE, val |-> 0]
      ELSE IF acc.range THEN [ok |-> FALSE, val |-> 0]
      ELSE IF neg THEN [ok |-> TRUE, val |-> acc.val]
      ELSE IF acc.val = INT_MIN THEN [ok |-> FALSE, val |-> 0]
      ELSE [ok |-> TRUE, val |-> 0 - acc.val]

----------------------------------------------------------------------------
(* std::map<std::string, T>: the entries in increasing key order *)

NoEntry == [found |-> FALSE, value |-> <<>>]

RECURSIVE MapFind(_, _)
\* find(): the entry of key k, or NoEntry for end().
MapFind(m, k) ==
  IF m = <<>> THEN NoEntry
  ELSE IF Head(m).key = k THEN [found |-> TRUE, value |-> Head(m).value]
  ELSE MapFind(Tail(m), k)

RECURSIVE MapPut_KeepsOld(_, _, _)
\* insert() in place of operator[]: an entry that exists keeps its value.
MapPut_KeepsOld(m, k, v) ==
  IF m = <<>> THEN <<[key |-> k, value |-> v]>>
  ELSE IF Head(m).key = k THEN m
  ELSE IF StrLess(k, Head(m).key) THEN <<[key |-> k, value |-> v]>> \o m
  ELSE <<Head(m)>> \o MapPut_KeepsOld(Tail(m), k, v)

RECURSIVE MapPut_Appends(_, _, _)
\* A container in insertion order: a new entry goes to the end.
MapPut_Appends(m, k, v) ==
  IF m = <<>> THEN <<[key |-> k, value |-> v]>>
  ELSE IF Head(m).key = k THEN <<[key |-> k, value |-> v]>> \o Tail(m)
  ELSE <<Head(m)>> \o MapPut_Appends(Tail(m), k, v)

RECURSIVE MapPut(_, _, _)
\* m[k] = v: assigns to the entry of k, inserting it at its place in key order.
MapPut(m, k, v) ==
  IF m = <<>> THEN <<[key |-> k, value |-> v]>>
  ELSE IF Head(m).key = k THEN <<[key |-> k, value |-> v]>> \o Tail(m)
  ELSE IF StrLess(k, Head(m).key) THEN <<[key |-> k, value |-> v]>> \o m
  ELSE <<Head(m)>> \o MapPut(Tail(m), k, v)

MapKeys(m) == {m[i].key : i \in 1..Len(m)}

----------------------------------------------------------------------------
(* nlohmann::json: lexing of a number literal *)

\* An integer part of the JSON grammar: 0 | [1-9][0-9]*
IsJsonIntPart(ds) ==
  /\ ds # <<>>
  /\ \A i \in 1..Len(ds) : IsDigit(ds[i])
  /\ (Len(ds) > 1 => ds[1] # "0")

\* -? int ( . digit+ )?   (exponents are not among the modelled literals)
IsJsonNumber(text) ==
  LET body == IF text # <<>> /\ Head(text) = "-" THEN Tail(text) ELSE text
      ip   == LeadingDigits(body)
      rest == SubSeq(body, Len(ip) + 1, Len(body))
  IN  /\ IsJsonIntPart(ip)
      /\ \/ rest = <<>>
         \/ /\ Len(rest) >= 2
            /\ rest[1] = "."
            /\ \A i \in 2..Len(rest) : IsDigit(rest[i])

HasFraction(text) == \E i \in 1..Len(text) : text[i] = "."

RECURSIVE DigitsLess(_, _)
\* a < b for digit strings of equal length.
DigitsLess(a, b) ==
  IF a = <<>> THEN FALSE
  ELSE IF Head(a) # Head(b) THEN DigitVal(Head(a)) < DigitVal(Head(b))
  ELSE DigitsLess(Tail(a), Tail(b))

\* a <= b for digit strings without leading zeros.
DigitsLeq(a, b) ==
  \/ Len(a) < Len(b)
  \/ Len(a) = Len(b) /\ ~DigitsLess(b, a)

\* std::numeric_limits<uint64_t>::max() and -(std::numeric_limits<int64_t>::min())
UInt64MaxDigits ==
  <<"1","8","4","4","6","7","4","4","0","7","3","7","0","9","5","5","1","6","1","5">>

Int64MinDigits ==
  <<"9","2","2","3","3","7","2","0","3","6","8","5","4","7","7","5","8","0","8">>

\* scan_number: the type the lexer gives a well-formed number literal.  An
\* integer literal that fits neither uint64_t (unsigned) nor int64_t
\* (negative) is read as a double.
NumberType(text) ==
  IF HasFraction(text) THEN "number_float"
  ELSE IF Head(text) = "-"
       THEN IF DigitsLeq(Tail(text), Int64MinDigits) THEN "number_integer"
            ELSE "number_float"
       ELSE IF DigitsLeq(text, UInt64MaxDigits) THEN "number_unsigned"
            ELSE "number_float"

\* The decimal text of the 64-bit integer an integer literal denotes.
IntegerOfLiteral(text) == IF text = <<"-", "0">> THEN <<"0">> ELSE text

----------------------------------------------------------------------------
(* nlohmann::json: value.get<int>() of a 64-bit integer *)

RECURSIVE Low32(_, _, _)
\* The low 32 bits of hi*2^16+lo followed by the digits ds, as two halves.
Low32(hi, lo, ds) ==
  IF ds = <<>> THEN [hi |-> hi, lo |-> lo]
  ELSE LET l == lo * 10 + DigitVal(Head(ds))
           h == hi * 10 + (l \div HalfWord)
       IN  Low32(h % HalfWord, l % HalfWord, Tail(ds))

\* Two's complement negation of a 32-bit word.
Negate32(w) ==
  IF w.lo = 0 THEN [hi |-> (HalfWord - w.hi) % HalfWord, lo |-> 0]
  ELSE [hi |-> HalfWord - 1 - w.hi, lo |-> HalfWord - w.lo]

\* The int whose bits the word holds.
AsInt(w) ==
  IF w.hi >= HalfWord \div 2 THEN (w.hi - HalfWord) * HalfWord + w.lo
  ELSE w.hi * HalfWord + w.lo

\* static_cast<int> of the integer with decimal text dec: its low 32 bits.
GetInt32(dec) ==
  IF Head(dec) = "-" THEN AsInt(Negate32(Low32(0, 0, Tail(dec))))
  ELSE AsInt(Low32(0, 0, dec))

----------------------------------------------------------------------------
(* nlohmann::json: parse and dump *)

\* Well-formed UTF-8: of the characters in use, only the byte 0xFF is not.
IsUtf8(s) == \A i \in 1..Len(s) : s[i] # "xFF"

\* A member value as written in the text can be lexed.
IsLexable(v) ==
  CASE v.kind = "string" -> IsUtf8(v.text)
    [] v.kind = "number" -> IsJsonNumber(v.text)
    [] OTHER -> TRUE

\* The json value a lexable member value is parsed to.  An integer is kept
\* as the decimal text of its 64-bit value.
ParseValue(v) ==
  CASE v.kind = "string" -> [type |-> "string", str |-> v.text]
    [] v.kind = "number" ->
         IF NumberType(v.text) = "number_float" THEN [type |-> "number_float"]
         ELSE [type |-> NumberType(v.text), dec |-> IntegerOfLiteral(v.text)]
    [] v.kind = "true"   -> [type |-> "boolean", b |-> TRUE]
    [] v.kind = "false"  -> [type |-> "boolean", b |-> FALSE]
    [] v.kind = "null"   -> [type |-> "null"]
    [] v.kind = "array"  -> [type |-> "array"]
    [] OTHER             -> [type |-> "object"]

RECURSIVE ParseMembers(_, _)
\* The object built from the members: a later member replaces an earlier one
\* of the same key.
ParseMembers(ms, obj) ==
  IF ms = <<>> THEN obj
  ELSE ParseMembers(Tail(ms), MapPut(obj, Head(ms).key, ParseValue(Head(ms).value)))

\* json::parse(text): [ok |-> FALSE] when it throws json::parse_error, else
\* the items of the parsed value in key order (none for the value null).
parse(doc) ==
  IF \/ ~doc.complete
     \/ \E i \in 1..Len(doc.members) :
          ~IsUtf8(doc.members[i].key) \/ ~IsLexable(doc.members[i].value)
  THEN [ok |-> FALSE, items |-> <<>>]
  ELSE [ok |-> TRUE,
        items |-> IF doc.top = "null" THEN <<>> ELSE ParseMembers(doc.members, <<>>)]

\* The text of one json value in the output of dump.
DumpValue(jv) ==
  IF jv.type = "string" THEN [kind |-> "string", text |-> jv.str]
  ELSE [kind |-> "number", text |-> jv.dec]

\* j.dump(2): [threw |-> TRUE] when it throws json::type_error (a string that
\* is not UTF-8), else the text: "null" for a json that was never assigned to,
\* the members in key order otherwise.
dump(j) ==
  IF \E i \in 1..Len(j) :
       \/ ~IsUtf8(j[i].key)
       \/ j[i].value.type = "string" /\ ~IsUtf8(j[i].value.str)
  THEN [threw |-> TRUE]
  ELSE [threw |-> FALSE,
        doc |-> [top |-> IF j = <<>> THEN "null" ELSE "object",
                 members |-> [i \in 1..Len(j) |->
                               [key |-> j[i].key, value |-> DumpValue(j[i].value)]],
                 complete |-> TRUE]]

----------------------------------------------------------------------------
(* ConfigManager *)

TrueText == <<"t","r","u","e">>

FalseText == <<"f","a","l","s","e">>

RECURSIVE LoadItems_TouchesSkipped(_, _)
\* The loop with a final else that names config_[key]: the entry is created.
LoadItems_TouchesSkipped(items, cfg) ==
  IF items = <<>> THEN cfg
  ELSE LET key   == Head(items).key
           value == Head(items).value
           next  ==
             IF value.type = "string" THEN MapPut(cfg, key, value.str)
             ELSE IF value.type \in {"number_integer", "number_unsigned"}
                  THEN MapPut(cfg, key, to_string(GetInt32(value.dec)))
             ELSE IF value.type = "boolean"
                  THEN MapPut(cfg, key, IF value.b THEN TrueText ELSE FalseText)
             ELSE MapPut(cfg, key, <<>>)
       IN  LoadItems_TouchesSkipped(Tail(items), next)

RECURSIVE LoadItems(_, _)
\* The loop of LoadFromJson over j.items().
LoadItems(items, cfg) ==
  IF items = <<>> THEN cfg
  ELSE LET key   == Head(items).key
           value == Head(items).value
           next  ==
             IF value.type = "string" THEN MapPut(cfg, key, value.str)
             ELSE IF value.type \in {"number_integer", "number_unsigned"}
                  THEN MapPut(cfg, key, to_string(GetInt32(value.dec)))
             ELSE IF value.type = "boolean"
                  THEN MapPut(cfg, key, IF value.b THEN TrueText ELSE FalseText)
             ELSE cfg
       IN  LoadItems(Tail(items), next)

\* config_.clear() ahead of json::parse.
LoadFromJson_ClearsFirst(cfg, doc) ==
  LET j == parse(doc)
  IN  IF j.ok THEN [ret |-> TRUE, config |-> LoadItems(j.items, <<>>), j |-> j]
      ELSE [ret |-> FALSE, config |-> <<>>, j |-> j]

\* No config_.clear(): the entries are merged into the map.
LoadFromJson_Merges(cfg, doc) ==
  LET j == parse(doc)
  IN  IF j.ok THEN [ret |-> TRUE, config |-> LoadItems(j.items, cfg), j |-> j]
      ELSE [ret |-> FALSE, config |-> cfg, j |-> j]

\* LoadFromJson(json_str) on the map cfg: the value returned, the map left,
\* and the json j the text was parsed to.
LoadFromJson(cfg, doc) ==
  LET j == parse(doc)
  IN  IF j.ok THEN [ret |-> TRUE, config |-> LoadItems(j.items, <<>>), j |-> j]
      ELSE [ret |-> FALSE, config |-> cfg, j |-> j]

RECURSIVE ExportItems(_, _)
\* The loop of ToJson over config_: the json object j it builds.
ExportItems(cfg, j) ==
  IF cfg = <<>> THEN j
  ELSE LET key   == Head(cfg).key
           value == Head(cfg).value
           n     == stoi(value)
           jv    == IF n.ok
                    THEN [type |-> "number_integer", dec |-> to_string(n.val)]
                    ELSE [type |-> "string", str |-> value]
       IN  ExportItems(Tail(cfg), MapPut(j, key, jv))

\* ToJson() on the map cfg.
ToJson(cfg) == dump(ExportItems(cfg, <<>>))

GetValue(cfg, key, default_value) ==
  LET it == MapFind(cfg, key)
  IN  IF it.found THEN it.value ELSE default_value

GetInt(cfg, key, default_value) ==
  LET it == MapFind(cfg, key)
  IN  IF it.found
      THEN IF stoi(it.value).ok THEN stoi(it.value).val ELSE default_value
      ELSE default_value

----------------------------------------------------------------------------
(* Inputs *)

\* The most members a document given to LoadFromJson has.
MaxMembers == 2

Instances == {1, 2}

Keys == {<<"a">>, <<"b">>}

DefaultValues == {<<"f","a","l","l","b","a","s","e">>}

DefaultInts == {42}

\* The strings given to SetValue and the integers given to SetInt, when
\* documents are loaded too.
Values == {<<"a">>, <<"xFF">>}

Ints == {-7}

Str(text) == [kind |-> "string", text |-> text]

Num(text) == [kind |-> "number", text |-> text]

Member(k, v) == [key |-> k, value |-> v]

Object(ms) == [top |-> "object", members |-> ms, complete |-> TRUE]

NullDoc == [top |-> "null", members |-> <<>>, complete |-> TRUE]

PlainValues == {Str(<<"a">>), Num(<<"7">>)}

OtherValues ==
  { Num(<<"7",".","5">>), [kind |-> "true"], [kind |-> "false"],
    [kind |-> "null"], [kind |-> "array"], [kind |-> "object"] }

PlainMembers(n) == [1..n -> [key : Keys, value : PlainValues]]

\* Member sequences of length n with at most one value out of OtherValues.
MembersOf(n) ==
  PlainMembers(n)
  \cup {[ms EXCEPT ![p].value = v] :
          ms \in PlainMembers(n), p \in 1..n, v \in OtherValues}

\* Complete documents of members that can be lexed, and the document "null".
GoodDocs == {NullDoc} \cup UNION {{Object(ms) : ms \in MembersOf(n)} : n \in 0..MaxMembers}

\* Documents cut short, and documents with a member that cannot be lexed
\* (a number with a leading zero, a string that is not UTF-8).
BadDocs ==
  { [top |-> "object", members |-> <<>>, complete |-> FALSE],
    [top |-> "object", members |-> <<Member(<<"a">>, Num(<<"7">>))>>,
     complete |-> FALSE],
    Object(<<Member(<<"a">>, Num(<<"0","7">>))>>),
    Object(<<Member(<<"b">>, Str(<<"a">>)), Member(<<"a">>, Num(<<"0","7">>))>>),
    Object(<<Member(<<"a">>, Str(<<"xFF">>))>>) }

Docs == GoodDocs \cup BadDocs

\* Integer literals of documents.  3000000000 fits uint64_t and not int;
\* 18446744073709551616 does not fit uint64_t.
IntegerValues ==
  { Num(<<"7">>), Num(<<"-","0">>),
    Num(<<"3","0","0","0","0","0","0","0","0","0">>),
    Num(<<"1","8","4","4","6","7","4","4","0","7","3","7","0","9","5","5","1","6","1","6">>) }

IntegerDocs ==
  UNION {{Object(ms) : ms \in [1..n -> [key : Keys, value : IntegerValues]]} :
           n \in 0..MaxMembers}

\* The strings and integers given to SetValue and SetInt when the map is
\* exported and read back.
ExportValues ==
  { <<"7">>, <<"0","7">>, <<"+","7">>, <<"-","0">>, <<"7","a">>, <<" ","7">>,
    <<"7",".","5">>, <<"a">>, <<>>, <<"xFF">>, TrueText,
    <<"2","1","4","7","4","8","3","6","4","8">> }

ExportInts == {0, -7, INT_MAX, INT_MIN}

\* The inputs of two instances side by side.
PairValues == {<<"a">>, <<"7">>, <<"xFF">>}

PairDocs ==
  { Object(<<Member(<<"b">>, Str(<<"a">>)), Member(<<"a">>, Num(<<"7">>))>>),
    Object(<<Member(<<"a">>, [kind |-> "true"])>>),
    Object(<<Member(<<"a">>, Num(<<"0","7">>))>>) }

----------------------------------------------------------------------------
(* std::string::find, std::getline *)

\* std::string::npos, with the characters of a string counted from 1.
npos == 0

RECURSIVE FindFrom(_, _, _)
\* The first place at or after n where the string holds the character c.
FindFrom(line, c, n) ==
  IF n > Len(line) THEN npos
  ELSE IF line[n] = c THEN n
  ELSE FindFrom(line, c, n + 1)

RECURSIVE FindBackFrom(_, _, _)
FindBackFrom(line, c, n) ==
  IF n < 1 THEN npos
  ELSE IF line[n] = c THEN n
  ELSE FindBackFrom(line, c, n - 1)

\* (rfind in place of find)
find_Last(line, c) == FindBackFrom(line, c, Len(line))

find(line, c) == FindFrom(line, c, 1)

\* std::getline(ss, line): fails when nothing is left to read; else reads up
\* to the next newline, which it consumes, or up to the end.
getline(content) ==
  LET pos == find(content, "\n")
  IN  IF content = <<>> THEN [ok |-> FALSE, line |-> <<>>, rest |-> <<>>]
      ELSE IF pos = npos THEN [ok |-> TRUE, line |-> content, rest |-> <<>>]
      ELSE [ok |-> TRUE, line |-> SubSeq(content, 1, pos - 1),
            rest |-> SubSeq(content, pos + 1, Len(content))]

----------------------------------------------------------------------------
(* util::ReadFile, util::WriteFile *)

NoFile == [exists |-> FALSE, content |-> <<>>]

File(content) == [exists |-> TRUE, content |-> content]

\* A file that can be created and written; a file that exists and can be
\* read but not written; a file in a directory that does not exist.
FilePath == "state.txt"

ReadOnlyPath == "readonly.txt"

MissingPath == "missing/state.txt"

Paths == {FilePath, ReadOnlyPath, MissingPath}

\* std::ifstream file(path) opens.
CanOpenForReading(fs, path) == fs[path].exists

\* std::ofstream file(path) opens.
CanOpenForWriting(fs, path) == path = FilePath

ReadFile(fs, path) ==
  IF ~CanOpenForReading(fs, path) THEN [ret |-> FALSE, content |-> <<>>]
  ELSE [ret |-> TRUE, content |-> fs[path].content]

WriteFile(fs, path, content) ==
  IF ~CanOpenForWriting(fs, path) THEN [ret |-> FALSE, files |-> fs]
  ELSE [ret |-> TRUE, files |-> [fs EXCEPT ![path] = File(content)]]

----------------------------------------------------------------------------
(* core::StateManager *)

RECURSIVE SaveContent(_)
\* The text SaveToFile builds: key=value and a newline for each entry.
SaveContent(m) ==
  IF m = <<>> THEN <<>>
  ELSE Head(m).key \o <<"=">> \o Head(m).value \o <<"\n">> \o SaveContent(Tail(m))

SaveToFile(m, fs, path) == WriteFile(fs, path, SaveContent(m))

RECURSIVE LoadLines(_, _)
\* The loop of LoadFromFile over the lines of the text.
LoadLines(content, m) ==
  LET g   == getline(content)
      pos == find(g.line, "=")
  IN  IF ~g.ok THEN m
      ELSE IF pos # npos
           THEN LoadLines(g.rest,
                          MapPut(m, SubSeq(g.line, 1, pos - 1),
                                 SubSeq(g.line, pos + 1, Len(g.line))))
           ELSE LoadLines(g.rest, m)

LoadFromFile(m, fs, path) ==
  LET r == ReadFile(fs, path)
  IN  IF ~r.ret THEN [ret |-> FALSE, state |-> m]
      ELSE [ret |-> TRUE, state |-> LoadLines(r.content, <<>>)]

HasKey(m, key) == MapFind(m, key).found

StateGetValue(m, key) ==
  IF MapFind(m, key).found THEN MapFind(m, key).value ELSE <<>>

----------------------------------------------------------------------------
(* Inputs of the StateManager operations *)

\* The number of entries a StateManager is given.
MaxEntries == 2

\* Keys: empty, plain, and one that holds '='.
StateKeys == {<<>>, <<"a">>, <<"a", "=">>}

\* Values: plain, one that holds '=', and one that holds a newline.
StateValues == {<<"7">>, <<"=", "7">>, <<"\n">>}

\* The text of the file that cannot be written: a line without '=', a key
\* that comes twice, a value that holds '=', an empty key, and a last line
\* without a newline.
ForeignContent ==
  <<"a", "=", "7", "\n",
    "b", "\n",
    "a", "=", "=", "b", "\n",
    "=", "7">>

InitialFiles ==
  [path \in Paths |-> IF path = ReadOnlyPath THEN File(ForeignContent) ELSE NoFile]

----------------------------------------------------------------------------
(* State *)

\* config_[i]: the map of instance i.  last: the most recent call, its
\* arguments (for LoadFromJson, the json its text was parsed to) and what it
\* returned.  preKeys: the keys the map of that instance held before the
\* call.  written[i][k]: the string last written to key k of instance i and
\* not discarded since.  state_[i]: the map of StateManager i.  files: the
\* file system.  saved[path]: the map the last SaveToFile that wrote the file
\* at path wrote it from.

Unwritten == [k \in Keys |-> NoEntry]

Call(op, self, key, arg, ret) ==
  [op |-> op, self |-> self, key |-> key, arg |-> arg, ret |-> ret]

Init ==
  /\ config_ = [i \in Instances |-> <<>>]
  /\ last = Call("ConfigManager", 1, <<>>, <<>>, <<>>)
  /\ preKeys = {}
  /\ written = [i \in Instances |-> Unwritten]
  /\ state_ = [i \in Instances |-> <<>>]
  /\ files = InitialFiles
  /\ saved = [path \in Paths |-> NoEntry]

\* What the loop of LoadFromJson writes for a json value.
Written(value) ==
  IF value.type = "string" THEN [found |-> TRUE, value |-> value.str]
  ELSE IF value.type \in {"number_integer", "number_unsigned"}
       THEN [found |-> TRUE, value |-> to_string(GetInt32(value.dec))]
  ELSE IF value.type = "boolean"
       THEN [found |-> TRUE, value |-> IF value.b THEN TrueText ELSE FalseText]
  ELSE NoEntry

WrittenBy(items) ==
  [k \in Keys |->
     IF \E n \in 1..Len(items) : items[n].key = k
     THEN Written(items[CHOOSE n \in 1..Len(items) : items[n].key = k].value)
     ELSE NoEntry]

----------------------------------------------------------------------------
(* Operations *)

SetValueCall(i, key, value) ==
  /\ config_' = [config_ EXCEPT ![i] = MapPut(@, key, value)]
  /\ last' = Call("SetValue", i, key, value, <<>>)
  /\ preKeys' = MapKeys(config_[i])
  /\ written' = [written EXCEPT ![i][key] = [found |-> TRUE, value |-> value]]
  /\ UNCHANGED <<state_, files, saved>>

SetIntCall(i, key, value) ==
  /\ config_' = [config_ EXCEPT ![i] = MapPut(@, key, to_string(value))]
  /\ last' = Call("SetInt", i, key, value, <<>>)
  /\ preKeys' = MapKeys(config_[i])
  /\ written' = [written EXCEPT ![i][key] =
                   [found |-> TRUE, value |-> to_string(value)]]
  /\ UNCHANGED <<state_, files, saved>>

GetValueCall(i, key, default_value) ==
  /\ last' = Call("GetValue", i, key, default_value,
                  GetValue(config_[i], key, default_value))
  /\ preKeys' = MapKeys(config_[i])
  /\ UNCHANGED <<config_, written, state_, files, saved>>

GetIntCall(i, key, default_value) ==
  /\ last' = Call("GetInt", i, key, default_value,
                  GetInt(config_[i], key, default_value))
  /\ preKeys' = MapKeys(config_[i])
  /\ UNCHANGED <<config_, written, state_, files, saved>>

LoadFromJsonCall(i, doc) ==
  LET r == LoadFromJson(config_[i], doc)
  IN  /\ config_' = [config_ EXCEPT ![i] = r.config]
      /\ last' = Call("LoadFromJson", i, <<>>, r.j, r.ret)
      /\ preKeys' = MapKeys(config_[i])
      /\ written' = IF r.ret
                    THEN [written EXCEPT ![i] = WrittenBy(r.j.items)]
                    ELSE written
      /\ UNCHANGED <<state_, files, saved>>

ToJsonCall(i) ==
  /\ last' = Call("ToJson", i, <<>>, <<>>, ToJson(config_[i]))
  /\ preKeys' = MapKeys(config_[i])
  /\ UNCHANGED <<config_, written, state_, files, saved>>

\* cfg.LoadFromJson(cfg.ToJson()): the text the preceding ToJson returned is
\* loaded.
ReloadCall(i) ==
  /\ last.op = "ToJson"
  /\ last.self = i
  /\ ~last.ret.threw
  /\ LoadFromJsonCall(i, last.ret.doc)

----------------------------------------------------------------------------
(* Operations of StateManager *)

StateSetValueCall(i, key, value) ==
  /\ Len(MapPut(state_[i], key, value)) <= MaxEntries
  /\ state_' = [state_ EXCEPT ![i] = MapPut(@, key, value)]
  /\ last' = Call("StateManager::SetValue", i, key, value, <<>>)
  /\ preKeys' = MapKeys(state_[i])
  /\ UNCHANGED <<config_, written, files, saved>>

StateGetValueCall(i, key) ==
  /\ last' = Call("StateManager::GetValue", i, key, <<>>,
                  StateGetValue(state_[i], key))
  /\ preKeys' = MapKeys(state_[i])
  /\ UNCHANGED <<config_, written, state_, files, saved>>

HasKeyCall(i, key) ==
  /\ last' = Call("HasKey", i, key, <<>>, HasKey(state_[i], key))
  /\ preKeys' = MapKeys(state_[i])
  /\ UNCHANGED <<config_, written, state_, files, saved>>

SaveToFileCall(i, path) ==
  LET r == SaveToFile(state_[i], files, path)
  IN  /\ files' = r.files
      /\ saved' = IF r.ret
                  THEN [saved EXCEPT ![path] = [found |-> TRUE, value |-> state_[i]]]
                  ELSE saved
      /\ last' = Call("SaveToFile", i, path, <<>>, r.ret)
      /\ preKeys' = MapKeys(state_[i])
      /\ UNCHANGED <<config_, written, state_>>

LoadFromFileCall(i, path) ==
  LET r == LoadFromFile(state_[i], files, path)
  IN  /\ state_' = [state_ EXCEPT ![i] = r.state]
      /\ last' = Call("LoadFromFile", i, path, <<>>, r.ret)
      /\ preKeys' = MapKeys(state_[i])
      /\ UNCHANGED <<config_, written, files, saved>>

----------------------------------------------------------------------------
(* One ConfigManager, any interleaving of its operations *)

Next ==
  \/ \E key \in Keys, value \in Values : SetValueCall(1, key, value)
  \/ \E key \in Keys, value \in Ints : SetIntCall(1, key, value)
  \/ \E key \in Keys, d \in DefaultValues : GetValueCall(1, key, d)
  \/ \E key \in Keys, d \in DefaultInts : GetIntCall(1, key, d)
  \/ \E doc \in Docs : LoadFromJsonCall(1, doc)
  \/ ToJsonCall(1)

Spec == Init /\ [][Next]_vars

(* One ConfigManager that is written to, read, exported and read back *)

NextExport ==
  \/ \E key \in Keys, value \in ExportValues : SetValueCall(1, key, value)
  \/ \E key \in Keys, value \in ExportInts : SetIntCall(1, key, value)
  \/ \E key \in Keys, d \in DefaultInts : GetIntCall(1, key, d)
  \/ ToJsonCall(1)
  \/ ReloadCall(1)

SpecExport == Init /\ [][NextExport]_vars

(* One ConfigManager that loads documents of integers and is read *)

NextDecode ==
  \/ \E doc \in IntegerDocs : LoadFromJsonCall(1, doc)
  \/ \E key \in Keys, d \in DefaultValues : GetValueCall(1, key, d)
  \/ \E key \in Keys, d \in DefaultInts : GetIntCall(1, key, d)

SpecDecode == Init /\ [][NextDecode]_vars

(* Two ConfigManagers side by side *)

NextPair ==
  \/ \E i \in Instances, key \in Keys, value \in PairValues : SetValueCall(i, key, value)
  \/ \E i \in Instances, key \in Keys, value \in Ints : SetIntCall(i, key, value)
  \/ \E i \in Instances, doc \in PairDocs : LoadFromJsonCall(i, doc)
  \/ \E i \in Instances : ToJsonCall(i)

SpecPair == Init /\ [][NextPair]_vars

(* One StateManager and the files it saves to and loads from *)

NextState ==
  \/ \E key \in StateKeys, value \in StateValues : StateSetValueCall(1, key, value)
  \/ \E key \in StateKeys : StateGetValueCall(1, key)
  \/ \E key \in StateKeys : HasKeyCall(1, key)
  \/ \E path \in Paths : SaveToFileCall(1, path)
  \/ \E path \in Paths : LoadFromFileCall(1, path)

SpecState == Init /\ [][NextState]_vars

----------------------------------------------------------------------------
(* Properties *)

ItemKeys(items) == {items[n].key : n \in 1..Len(items)}

\* [+-]? digit+
IsDecimalInt(s) ==
  LET body == IF s # <<>> /\ Head(s) \in {"+", "-"} THEN Tail(s) ELSE s
  IN  body # <<>> /\ \A n \in 1..Len(body) : IsDigit(body[n])

\* The whole string is a decimal integer that an int holds.
ParsesCleanly(s) == IsDecimalInt(s) /\ stoi(s).ok

\* 0 | -? [1-9] digit*
IsCanonicalInt(s) ==
  LET body == IF s # <<>> /\ Head(s) = "-" THEN Tail(s) ELSE s
  IN  /\ IsJsonIntPart(body)
      /\ s # <<"-", "0">>

AllValues(cfg, P(_)) == \A n \in 1..Len(cfg) : P(cfg[n].value)

SameMapping(c1, c2) == \A k \in Keys : MapFind(c1, k) = MapFind(c2, k)

\* C1: a LoadFromJson of a malformed document returns false and leaves the
\* map exactly as it was: no key added, removed or changed, and not cleared.
C1_AllOrNothing ==
  [][(last'.op = "LoadFromJson" /\ ~last'.arg.ok)
       => (last'.ret = FALSE /\ config_' = config_)]_vars

\* A populated map after a LoadFromJson that returned false.
C1_Witness ==
  /\ last.op = "LoadFromJson"
  /\ ~last.arg.ok
  /\ last.ret = FALSE
  /\ Len(config_[1]) = 2

\* C2: after a LoadFromJson that returned true the map holds exactly what
\* the document's entries were decoded to; a key held before and not in the
\* document is gone.
C2_ReplaceOnSuccess ==
  (last.op = "LoadFromJson" /\ last.ret = TRUE)
    => /\ \A k \in Keys :
            MapFind(config_[last.self], k) = WrittenBy(last.arg.items)[k]
       /\ MapKeys(config_[last.self]) \subseteq ItemKeys(last.arg.items)
       /\ \A k \in preKeys \ ItemKeys(last.arg.items) :
            ~MapFind(config_[last.self], k).found

\* A successful load of a document that lacks a key the map held, and has an
\* entry that is stored.
C2_Witness ==
  /\ last.op = "LoadFromJson"
  /\ last.ret = TRUE
  /\ preKeys \ ItemKeys(last.arg.items) # {}
  /\ config_[1] # <<>>

\* C5: a document that parses is loaded with success; of its entries each
\* string is stored verbatim, each boolean as "true" or "false", and a
\* floating-point, null, array or object value is not stored.
C5_DecodeByKind ==
  (last.op = "LoadFromJson" /\ last.arg.ok)
    => /\ last.ret = TRUE
       /\ \A n \in 1..Len(last.arg.items) :
            LET it == last.arg.items[n]
                e  == MapFind(config_[last.self], it.key)
            IN  /\ it.value.type = "string"
                     => e = [found |-> TRUE, value |-> it.value.str]
                /\ it.value.type = "boolean"
                     => e = [found |-> TRUE,
                             value |-> IF it.value.b THEN TrueText ELSE FalseText]
                /\ it.value.type \in {"number_float", "null", "array", "object"}
                     => ~e.found

\* A successful load of a document with an entry that is skipped and a
\* string entry that is stored.
C5_Witness ==
  /\ last.op = "LoadFromJson"
  /\ last.ret = TRUE
  /\ \E n, m \in 1..Len(last.arg.items) :
       /\ last.arg.items[n].value.type \in {"number_float", "null", "array", "object"}
       /\ last.arg.items[m].value.type = "string"
  /\ Len(config_[1]) = 1

\* C7: after a successful load every integer entry of the document,
\* whatever its magnitude or sign, is stored as the decimal text of that
\* integer.
C7_IntegerDecode ==
  (last.op = "LoadFromJson" /\ last.ret = TRUE)
    => \A n \in 1..Len(last.arg.items) :
         LET it == last.arg.items[n]
         IN  it.value.type \in {"number_integer", "number_unsigned"}
               => MapFind(config_[last.self], it.key)
                    = [found |-> TRUE, value |-> it.value.dec]

\* C8: every key holds the string last written to it by SetValue, SetInt or
\* the last successful load, and none if it was not written since; GetValue
\* returns that string, or its default when there is none.
C8_LastWriteWins ==
  /\ \A i \in Instances, k \in Keys : MapFind(config_[i], k) = written[i][k]
  /\ last.op = "GetValue"
       => last.ret = IF written[last.self][last.key].found
                     THEN written[last.self][last.key].value
                     ELSE last.arg

\* GetValue returned a stored string while the other key is held too.
C8_Witness ==
  /\ last.op = "GetValue"
  /\ written[1][last.key].found
  /\ last.ret = written[1][last.key].value
  /\ \A k \in Keys : written[1][k].found

\* C3: ToJson emits an entry as a number if and only if the whole stored
\* string is an optionally signed decimal integer; every other string is
\* emitted as a string with its text unchanged.
C3_ExportClassification ==
  (last.op = "ToJson" /\ ~last.ret.threw)
    => \A n \in 1..Len(config_[last.self]) :
         LET e == config_[last.self][n]
             m == last.ret.doc.members[n]
         IN  /\ m.key = e.key
             /\ m.value.kind = "number" <=> ParsesCleanly(e.value)
             /\ ~ParsesCleanly(e.value) => m.value = Str(e.value)

C6_GetIntFallback ==
  last.op = "GetInt"
    => LET it == MapFind(config_[last.self], last.key)
       IN  last.ret = IF it.found /\ ParsesCleanly(it.value)
                      THEN stoi(it.value).val
                      ELSE last.arg

\* C9: ToJson returns a document whatever strings the map holds.
C9_ExportNeverThrows == last.op = "ToJson" => ~last.ret.threw

\* C10: two maps with the same entries export the same text, however each
\* was built, and ToJson again on the map it left returns the same text.
C10_DeterministicExport ==
  /\ SameMapping(config_[1], config_[2]) => ToJson(config_[1]) = ToJson(config_[2])
  /\ last.op = "ToJson" => ToJson(config_[last.self]) = last.ret

\* Two maps of two entries each hold the same entries, after a key was added
\* to one of them below a key it held, and the export succeeds.
C10_Witness ==
  /\ SameMapping(config_[1], config_[2])
  /\ Len(config_[1]) = 2
  /\ last.op \in {"SetValue", "SetInt"}
  /\ last.key = <<"a">>
  /\ preKeys = {<<"b">>}
  /\ ~ToJson(config_[1]).threw

\* A key without '=' and without a newline; a value without a newline.
ValidKey(key) == \A n \in 1..Len(key) : key[n] \notin {"=", "\n"}

ValidValue(value) == \A n \in 1..Len(value) : value[n] # "\n"

Persistable(m) ==
  \A n \in 1..Len(m) : ValidKey(m[n].key) /\ ValidValue(m[n].value)

RECURSIVE Lines(_)
\* The lines of a text, in order.
Lines(content) ==
  IF ~getline(content).ok THEN <<>>
  ELSE <<getline(content).line>> \o Lines(getline(content).rest)

\* The line holds '=' at p and nowhere before p.
FirstEqualsAt(line, p) ==
  /\ p \in 1..Len(line)
  /\ line[p] = "="
  /\ \A q \in 1..(p - 1) : line[q] # "="

\* What a line contributes: the text before its first '=' as key and the
\* text after it as value, or nothing when it holds no '='.
EntryOfLine(line) ==
  IF \E p \in 1..Len(line) : FirstEqualsAt(line, p)
  THEN LET p == CHOOSE p \in 1..Len(line) : FirstEqualsAt(line, p)
       IN  [found |-> TRUE, key |-> SubSeq(line, 1, p - 1),
            value |-> SubSeq(line, p + 1, Len(line))]
  ELSE [found |-> FALSE, key |-> <<>>, value |-> <<>>]

\* The mapping m is what the lines of the text say: every key of a line with
\* '=' holds the value of the last such line with that key, and m holds no
\* other key.
SaysMapping(content, m) ==
  LET entries == [n \in 1..Len(Lines(content)) |-> EntryOfLine(Lines(content)[n])]
      given   == {n \in 1..Len(Lines(content)) : entries[n].found}
  IN  /\ \A n \in given :
            LET lastOf == CHOOSE l \in given :
                            /\ entries[l].key = entries[n].key
                            /\ \A o \in given : entries[o].key = entries[n].key => o <= l
            IN  MapFind(m, entries[n].key)
                  = [found |-> TRUE, value |-> entries[lastOf].value]
      /\ MapKeys(m) \subseteq {entries[n].key : n \in given}

\* C11: after a successful LoadFromFile the StateManager holds exactly the
\* mapping a SaveToFile saved to that file, nothing of what it held before,
\* when no key saved holds '=' or a newline and no value saved holds a
\* newline; and after every successful LoadFromFile it holds what the lines
\* of the file say, each line split at its first '=', lines without '='
\* giving no entry, a later line overriding an earlier one with its key.
C11_PersistenceRoundTrip ==
  (last.op = "LoadFromFile" /\ last.ret = TRUE)
    => /\ (saved[last.key].found /\ Persistable(saved[last.key].value))
            => state_[last.self] = saved[last.key].value
       /\ SaysMapping(files[last.key].content, state_[last.self])

\* A file saved from a mapping with a value that holds '=' was loaded by a
\* StateManager that held a key the file lacks.
C11_Witness ==
  /\ last.op = "LoadFromFile"
  /\ last.ret = TRUE
  /\ saved[last.key].found
  /\ Persistable(saved[last.key].value)
  /\ \E n \in 1..Len(saved[last.key].value) :
       \E p \in 1..Len(saved[last.key].value[n].value) :
         saved[last.key].value[n].value[p] = "="
  /\ ~(preKeys \subseteq MapKeys(saved[last.key].value))
  /\ HasKey(state_[1], <<"a">>)
  /\ StateGetValue(state_[1], <<"a">>) = <<"=", "7">>

====
